---- MODULE Spec2Model ----
(***************************************************************************)
(* Motivation-CLI: the admin application (app.py) and the static page      *)
(* generator (generate_page.py).                                           *)
(*                                                                         *)
(* Conventions.  A Python str is a sequence of one-character strings.  A   *)
(* Python value that may be None is a sequence of length at most one:      *)
(* <<>> is None, <<x>> is the value x.  A dict is a function from key      *)
(* names to values.  The data file holds the characters json.dump wrote.   *)
(***************************************************************************)
EXTENDS Integers, Sequences, FiniteSets, TLC

VARIABLES
    file,     \* DATA_FILE: [exists, text], text the characters of the document
    clock,    \* the system clock: [day, tick], tick the moment within the day
    output,   \* OUTPUT_FILE: [exists, content], content None when empty
    runs,     \* the two most recent daily selections, oldest first
    adds,     \* how many submissions add_entry has stored
    last,     \* what the most recent operation did and answered
    inflight  \* the add_entry requests being served side by side

vars == <<file, clock, output, runs, adds, last, inflight>>

None == <<>>

Some(x) == <<x>>

----------------------------------------------------------------------------
(* str methods used by the handlers *)

IsSpace(c) == c \in {" ", "\n", "\t"}

RECURSIVE LStrip(_)
LStrip(s) ==
    IF s = <<>> THEN s
    ELSE IF IsSpace(Head(s)) THEN LStrip(Tail(s)) ELSE s

RECURSIVE RStrip(_)
RStrip(s) ==
    IF s = <<>> THEN s
    ELSE IF IsSpace(s[Len(s)]) THEN RStrip(SubSeq(s, 1, Len(s) - 1)) ELSE s

StripNone(s) == s

Strip(s) == RStrip(LStrip(s))

RECURSIVE Split(_, _)
Split(s, sep) ==
    IF \E i \in 1..Len(s) : s[i] = sep
    THEN LET i == CHOOSE k \in 1..Len(s) :
                      s[k] = sep /\ \A j \in 1..(k - 1) : s[j] # sep
         IN  <<SubSeq(s, 1, i - 1)>> \o Split(SubSeq(s, i + 1, Len(s)), sep)
    ELSE <<s>>

RECURSIVE NonEmpty(_)
NonEmpty(ss) ==
    IF ss = <<>> THEN <<>>
    ELSE IF Head(ss) # <<>> THEN <<Head(ss)>> \o NonEmpty(Tail(ss))
         ELSE NonEmpty(Tail(ss))

\* [img.strip() for img in images_raw.split(",") if img.strip()] if images_raw else []
ParseImages(images_raw) ==
    IF images_raw # <<>>
    THEN LET parts == Split(images_raw, ",")
         IN  NonEmpty([i \in 1..Len(parts) |-> Strip(parts[i])])
    ELSE <<>>

----------------------------------------------------------------------------
(* json.dump / json.load on the store document *)

KeyChars ==
    [quotes  |-> <<"q", "u", "o", "t", "e", "s">>,
     poems   |-> <<"p", "o", "e", "m", "s">>,
     id      |-> <<"i", "d">>,
     text    |-> <<"t", "e", "x", "t">>,
     author  |-> <<"a", "u", "t", "h", "o", "r">>,
     history |-> <<"h", "i", "s", "t", "o", "r", "y">>,
     images  |-> <<"i", "m", "a", "g", "e", "s">>]

KeyName(chars) == CHOOSE k \in DOMAIN KeyChars : KeyChars[k] = chars

EntryKeys == <<"id", "text", "author", "history", "images">>

StoreKeys == <<"quotes", "poems">>

JsonEscape(c) ==
    CASE c = "\"" -> <<"\\", "\"">>
      [] c = "\\" -> <<"\\", "\\">>
      [] c = "\n" -> <<"\\", "n">>
      [] c = "\t" -> <<"\\", "t">>
      [] OTHER    -> <<c>>

JsonUnescapeNothing(c) == c

JsonUnescape(c) ==
    CASE c = "n" -> "\n"
      [] c = "t" -> "\t"
      [] OTHER   -> c

RECURSIVE DumpChars(_)
DumpChars(s) ==
    IF s = <<>> THEN <<>> ELSE JsonEscape(Head(s)) \o DumpChars(Tail(s))

DumpStr(s) == <<"\"">> \o DumpChars(s) \o <<"\"">>

\* items joined by the item separator of indent=2: a comma and a line break
RECURSIVE JoinItems(_)
JoinItems(items) ==
    IF items = <<>> THEN <<>>
    ELSE IF Len(items) = 1 THEN items[1]
    ELSE items[1] \o <<",", "\n">> \o JoinItems(Tail(items))

DumpList(items) ==
    IF items = <<>> THEN <<"[", "]">>
    ELSE <<"[", "\n">> \o JoinItems(items) \o <<"\n", "]">>

DumpMember(key, valueChars) == DumpStr(KeyChars[key]) \o <<":", " ">> \o valueChars

DumpStrList(ss) == DumpList([i \in 1..Len(ss) |-> DumpStr(ss[i])])

DumpEntry(e) ==
    <<"{", "\n">>
    \o JoinItems([i \in 1..Len(EntryKeys) |->
           DumpMember(EntryKeys[i],
                      IF EntryKeys[i] = "images"
                      THEN DumpStrList(e[EntryKeys[i]])
                      ELSE DumpStr(e[EntryKeys[i]]))])
    \o <<"\n", "}">>

DumpEntries(es) == DumpList([i \in 1..Len(es) |-> DumpEntry(es[i])])

\* json.dump(data, f, indent=2, ensure_ascii=False) of a store document;
\* the members come out in the dict's order, quotes before poems
JsonDump(data) ==
    LET keys == SelectSeq(StoreKeys, LAMBDA k : k \in DOMAIN data)
    IN  <<"{", "\n">>
        \o JoinItems([i \in 1..Len(keys) |->
               DumpMember(keys[i], DumpEntries(data[keys[i]]))])
        \o <<"\n", "}">>

RECURSIVE SkipWs(_, _)
SkipWs(s, i) ==
    IF i <= Len(s) /\ IsSpace(s[i]) THEN SkipWs(s, i + 1) ELSE i

\* the characters of a string whose opening quote is before position i
RECURSIVE ParseStr(_, _, _)
ParseStr(s, i, acc) ==
    IF s[i] = "\"" THEN <<acc, i + 1>>
    ELSE IF s[i] = "\\"
         THEN ParseStr(s, i + 2, Append(acc, JsonUnescape(s[i + 1])))
         ELSE ParseStr(s, i + 1, Append(acc, s[i]))

RECURSIVE ParseValue(_, _)
RECURSIVE ParseArr(_, _, _)
RECURSIVE ParseObj(_, _, _)

ParseValue(s, i) ==
    LET j == SkipWs(s, i)
    IN  CASE s[j] = "\"" -> ParseStr(s, j + 1, <<>>)
          [] s[j] = "["  -> ParseArr(s, j + 1, <<>>)
          [] s[j] = "{"  -> ParseObj(s, j + 1, <<>>)

ParseArr(s, i, acc) ==
    LET j == SkipWs(s, i)
    IN  IF s[j] = "]" THEN <<acc, j + 1>>
        ELSE IF s[j] = "," THEN ParseArr(s, j + 1, acc)
        ELSE LET r == ParseValue(s, j)
             IN  ParseArr(s, r[2], Append(acc, r[1]))

ParseObj(s, i, acc) ==
    LET j == SkipWs(s, i)
    IN  IF s[j] = "}" THEN <<acc, j + 1>>
        ELSE IF s[j] = "," THEN ParseObj(s, j + 1, acc)
        ELSE LET k == ParseStr(s, j + 1, <<>>)
                 c == SkipWs(s, k[2])
                 v == ParseValue(s, c + 1)
             IN  ParseObj(s, v[2], (KeyName(k[1]) :> v[1]) @@ acc)

JsonLoad(text) == ParseValue(text, 1)[1]

----------------------------------------------------------------------------
(* the calendar: datetime.date.today() and strftime *)

MaxDay == 1

MomentsPerDay == 2

\* the first calendar day the clock can show
StartDate == [y |-> 2024, m |-> 2, d |-> 28]

IsLeap(y) == (y % 4 = 0 /\ y % 100 # 0) \/ y % 400 = 0

DaysInMonth(y, m) ==
    IF m = 2 THEN (IF IsLeap(y) THEN 29 ELSE 28)
    ELSE IF m \in {4, 6, 9, 11} THEN 30 ELSE 31

NextDay(dt) ==
    IF dt.d < DaysInMonth(dt.y, dt.m) THEN [dt EXCEPT !.d = dt.d + 1]
    ELSE IF dt.m < 12 THEN [dt EXCEPT !.m = dt.m + 1, !.d = 1]
    ELSE [y |-> dt.y + 1, m |-> 1, d |-> 1]

RECURSIVE DateOf(_)
DateOf(day) == IF day = 0 THEN StartDate ELSE NextDay(DateOf(day - 1))

TodayWithTime(clk) ==
    [y |-> DateOf(clk.day).y, m |-> DateOf(clk.day).m,
     d |-> DateOf(clk.day).d * 100 + clk.tick]

\* date.today(): the calendar date of the clock, the time of day dropped
Today(clk) == DateOf(clk.day)

\* int(today.strftime("%Y%m%d"))
SeedOf(dt) == dt.y * 10000 + dt.m * 100 + dt.d

MonthNames ==
    <<"January", "February", "March", "April", "May", "June", "July",
      "August", "September", "October", "November", "December">>

\* strftime("%B %d, %Y")
LongDate(dt) == <<MonthNames[dt.m], dt.d, dt.y>>

----------------------------------------------------------------------------
(* random.Random(seed): a deterministic generator.  The stream is that of  *)
(* a 16-bit linear congruential generator in place of the Mersenne         *)
(* Twister; _randbelow, sample and choice draw from it the way the         *)
(* library does.                                                           *)

RngModulus == 2 ^ 16

RngSeed(seed) == seed % RngModulus

RngStep(s) == (25173 * s + 13849) % RngModulus

RECURSIVE BitLength(_)
BitLength(n) == IF n = 0 THEN 0 ELSE 1 + BitLength(n \div 2)

\* _randbelow_with_getrandbits(n): <<r, generator state after the draws>>
RECURSIVE RandBelow(_, _)
RandBelow(n, s) ==
    LET s1 == RngStep(s)
        r  == s1 \div (RngModulus \div (2 ^ BitLength(n)))
    IN  IF r < n THEN <<r, s1>> ELSE RandBelow(n, s1)

\* the loop of sample() over the pool: i results are drawn already
RECURSIVE SampleLoop(_, _, _, _, _)
SampleLoop(pool, k, i, result, s) ==
    IF i = k THEN [raised |-> FALSE, result |-> result, rng |-> s]
    ELSE LET n  == Len(pool)
             rb == RandBelow(n - i, s)
             j  == rb[1] + 1
         IN  SampleLoop([pool EXCEPT ![j] = pool[n - i]], k, i + 1,
                        Append(result, pool[j]), rb[2])

SampleWithReplacement(population, k, s) ==
    IF k < 0 \/ k > Len(population)
    THEN [raised |-> TRUE, result |-> <<>>, rng |-> s]
    ELSE LET RECURSIVE Loop(_, _, _)
             Loop(i, result, st) ==
                 IF i = k THEN [raised |-> FALSE, result |-> result, rng |-> st]
                 ELSE LET rb == RandBelow(Len(population), st)
                      IN  Loop(i + 1, Append(result, population[rb[1] + 1]), rb[2])
         IN  Loop(0, <<>>, s)

\* rng.sample(population, k); ValueError when k exceeds the population
Sample(population, k, s) ==
    IF k < 0 \/ k > Len(population)
    THEN [raised |-> TRUE, result |-> <<>>, rng |-> s]
    ELSE SampleLoop(population, k, 0, <<>>, s)

\* rng.choice(seq) of a non-empty seq
Choice(seq, s) == seq[RandBelow(Len(seq), s)[1] + 1]

Min(a, b) == IF a < b THEN a ELSE b

\* data.get(key, [])
GetList(data, key) == IF key \in DOMAIN data THEN data[key] ELSE <<>>

\* min(3, len(quotes))
NumQuotes(quotes) == Min(3, Len(quotes))

\* rng.choice(poems) if poems else None
PoemOf(poems, s) == IF poems # <<>> THEN Some(Choice(poems, s)) ELSE None

SelectionPoemFromQuotes(quotes, poems, seed) ==
    LET rng    == RngSeed(seed)
        n      == Len(quotes)
        picked == Sample(quotes, NumQuotes(quotes), rng)
        places == Sample([i \in 1..n |-> i], NumQuotes(quotes), rng)
    IN  [raised |-> FALSE, quotes |-> picked.result,
         poem |-> PoemOf(quotes, picked.rng), positions |-> places.result]

\* what a selection yields: the quotes, the poem, whether it raised, and the
\* list positions the quotes were taken from
Selection(quotes, poems, seed) ==
    LET rng    == RngSeed(seed)
        n      == Len(quotes)
        picked == Sample(quotes, NumQuotes(quotes), rng)
        places == Sample([i \in 1..n |-> i], NumQuotes(quotes), rng)
    IN  IF picked.raised
        THEN [raised |-> TRUE, quotes |-> <<>>, poem |-> None, positions |-> <<>>]
        ELSE [raised |-> FALSE, quotes |-> picked.result,
              poem |-> PoemOf(poems, picked.rng), positions |-> places.result]

\* generate_page.select_daily_content(data), run when the clock shows clk
SelectDailyContent(data, clk) ==
    LET today == Today(clk)
        seed  == SeedOf(today)
    IN  Selection(GetList(data, "quotes"), GetList(data, "poems"), seed)

\* the selection inside app.index(), today_date read by the caller
IndexSelectionPoemFirst(data, today_date) ==
    LET seed   == SeedOf(today_date)
        rng    == RngSeed(seed)
        quotes == GetList(data, "quotes")
        poems  == GetList(data, "poems")
        after  == IF poems # <<>> THEN RandBelow(Len(poems), rng)[2] ELSE rng
        picked == Sample(quotes, Min(3, Len(quotes)), after)
        places == Sample([i \in 1..Len(quotes) |-> i], Min(3, Len(quotes)), after)
    IN  [raised |-> FALSE, quotes |-> picked.result,
         poem |-> IF poems # <<>> THEN Some(Choice(poems, rng)) ELSE None,
         positions |-> places.result]

\* index(), from seed = int(today_date.strftime("%Y%m%d")) to selected_poem
IndexSelection(data, today_date) ==
    LET seed   == SeedOf(today_date)
        rng    == RngSeed(seed)
        quotes == GetList(data, "quotes")
        poems  == GetList(data, "poems")
        picked == Sample(quotes, Min(3, Len(quotes)), rng)
        places == Sample([i \in 1..Len(quotes) |-> i], Min(3, Len(quotes)), rng)
    IN  IF picked.raised
        THEN [raised |-> TRUE, quotes |-> <<>>, poem |-> None, positions |-> <<>>]
        ELSE [raised |-> FALSE, quotes |-> picked.result,
              poem |-> IF poems # <<>> THEN Some(Choice(poems, picked.rng)) ELSE None,
              positions |-> places.result]

----------------------------------------------------------------------------
(* the entry store: load_data and save_data *)

EmptyStore == [quotes |-> <<>>, poems |-> <<>>]

AppLoadDataQuotesOnly(f) ==
    IF ~f.exists THEN [quotes |-> <<>>] ELSE JsonLoad(f.text)

\* app.load_data()
AppLoadData(f) == IF ~f.exists THEN EmptyStore ELSE JsonLoad(f.text)

\* generate_page.load_data(): open() raises when the file is not there
GenLoadData(f) ==
    IF ~f.exists
    THEN [raised |-> TRUE, error |-> "FileNotFoundError", data |-> EmptyStore]
    ELSE [raised |-> FALSE, error |-> "", data |-> JsonLoad(f.text)]

\* app.save_data(data)
SaveData(data) == [exists |-> TRUE, text |-> JsonDump(data)]

NoFile == [exists |-> FALSE, text |-> <<>>]

----------------------------------------------------------------------------
(* requests and answers of the admin application *)

\* the answer of a handler, before the handler fills it in
Answer ==
    [op |-> "", outcome |-> "ok", error |-> "", step |-> "", flash |-> <<>>,
     redirect |-> "", form |-> None, loaded |-> None, saved |-> None,
     view |-> None, net |-> ""]

Flash(message, category) == [message |-> message, category |-> category]

\* request.form.get(name, "")
FormGet(form, name) == IF form[name] = None THEN <<>> ELSE form[name][1]

\* uuid.uuid4().hex[:8]
HexLen == 8

EntryId(entry_type, uuid_hex) ==
    (IF entry_type = Some("quote") THEN <<"q">> ELSE <<"p">>)
    \o SubSeq(uuid_hex, 1, HexLen)

ListKeyAlwaysQuotes(entry_type) == "quotes"

\* key = "quotes" if entry_type == "quote" else "poems"
ListKey(entry_type) == IF entry_type = Some("quote") THEN "quotes" ELSE "poems"

\* if not text or not author
IsRejected(text, author) == text = <<>> \/ author = <<>>

InsertEntryFirst(data, key, entry) == [data EXCEPT ![key] = <<entry>> \o @]

\* data[key].append(entry)
AppendEntry(data, key, entry) == [data EXCEPT ![key] = Append(@, entry)]

\* add_entry(): the file it leaves and the answer it gives; loaded is what
\* load_data() returns when the handler comes to call it
AddEntryResult(f, loaded, form, uuid_hex) ==
    LET entry_type == form.type
        text       == Strip(FormGet(form, "text"))
        author     == Strip(FormGet(form, "author"))
        history    == Strip(FormGet(form, "history"))
        images_raw == Strip(FormGet(form, "images"))
        answer     == [Answer EXCEPT !.op = "add_entry", !.form = Some(form),
                                     !.redirect = "add_page"]
    IN  IF IsRejected(text, author)
        THEN [file   |-> f,
              answer |-> [answer EXCEPT
                            !.outcome = "rejected",
                            !.flash = <<Flash(<<"Text and author are required">>,
                                              "error")>>]]
        ELSE LET images == ParseImages(images_raw)
                 entry  == [id      |-> EntryId(entry_type, uuid_hex),
                            text    |-> text,
                            author  |-> author,
                            history |-> history,
                            images  |-> images]
                 data   == loaded
                 key    == ListKey(entry_type)
             IN  IF key \notin DOMAIN data
                 THEN [file   |-> f,
                       answer |-> [answer EXCEPT
                                     !.outcome = "error", !.error = "KeyError",
                                     !.redirect = "", !.loaded = Some(data)]]
                 ELSE [file   |-> SaveData(AppendEntry(data, key, entry)),
                       answer |-> [answer EXCEPT
                                     !.loaded = Some(data),
                                     !.saved = Some(AppendEntry(data, key, entry)),
                                     !.flash = <<Flash(<<"Added new ", entry_type, "!">>,
                                                       "success")>>]]

----------------------------------------------------------------------------
(* the static page generator: fetch_apod, generate_html and main *)

\* what the request to the picture-of-the-day service can come to
ApodOutcomes ==
    {"connection_error", "timeout", "http_error", "invalid_json",
     "image", "video", "no_url"}

ApodBody(net) ==
    [url        |-> IF net = "no_url" THEN None ELSE Some(<<"u">>),
     hdurl      |-> IF net = "image" THEN Some(<<"U">>) ELSE None,
     title      |-> Some(<<"T">>),
     media_type |-> IF net = "no_url" THEN None ELSE Some(net)]

FetchApodUncaught(net) ==
    IF net \in {"image", "video", "no_url"}
    THEN [raised |-> FALSE, apod |-> Some(ApodBody(net))]
    ELSE [raised |-> TRUE, apod |-> None]

\* fetch_apod(): every exception of the request is caught and gives None
FetchApod(net) ==
    IF net \in {"image", "video", "no_url"}
    THEN [raised |-> FALSE, apod |-> Some(ApodBody(net))]
    ELSE [raised |-> FALSE, apod |-> None]

RECURSIVE Replace(_, _, _)
Replace(s, c, by) ==
    IF s = <<>> THEN <<>>
    ELSE (IF Head(s) = c THEN by ELSE <<Head(s)>>) \o Replace(Tail(s), c, by)

RenderQuote(q) ==
    [text |-> q.text, author |-> q.author, images |-> q.images,
     history |-> q.history]

RenderPoem(poem) ==
    [text |-> Replace(poem.text, "\n", <<"<", "b", "r", ">">>),
     author |-> poem.author, images |-> poem.images, history |-> poem.history]

\* generate_html(quotes, poem, apod), run when the clock shows clk
GenerateHtml(quotes, poem, apod, clk) ==
    LET today    == LongDate(Today(clk))
        has_apod == apod # None /\ apod[1].url # None
    IN  [complete         |-> TRUE,
         today            |-> today,
         apod_image       |-> IF ~has_apod THEN ""
                              ELSE IF apod[1].media_type = Some("video")
                                   THEN "iframe" ELSE "img",
         apod_description |-> has_apod,
         quotes           |-> [i \in 1..Len(quotes) |-> RenderQuote(quotes[i])],
         poem             |-> IF poem # None THEN Some(RenderPoem(poem[1]))
                              ELSE None]

\* what opening and writing OUTPUT_FILE can come to
WriteOutcomes == {"written", "open_fails", "write_fails_empty", "write_fails_part"}

\* with open(OUTPUT_FILE, "w") as f: f.write(html)
WriteOutput(out, html, io) ==
    CASE io = "open_fails"        -> out
      [] io = "write_fails_empty" -> [exists |-> TRUE, content |-> None]
      [] io = "write_fails_part"  ->
             [exists |-> TRUE, content |-> Some([html EXCEPT !.complete = FALSE])]
      [] OTHER                    -> [exists |-> TRUE, content |-> Some(html)]

\* the clock after `elapsed` more moments
RECURSIVE Later(_, _)
Later(clk, elapsed) ==
    IF elapsed = 0 THEN clk
    ELSE Later(IF clk.tick + 1 < MomentsPerDay
               THEN [clk EXCEPT !.tick = clk.tick + 1]
               ELSE [day |-> clk.day + 1, tick |-> 0],
               elapsed - 1)

\* main() started when the clock shows clk: ld is what load_data() comes
\* to, net what the enrichment request comes to, elapsed the time that
\* passes before the page is rendered, io what the write comes to
MainRun(ld, out, clk, net, elapsed, io) ==
    LET sel  == SelectDailyContent(ld.data, clk)
        fa   == FetchApod(net)
        clk2 == Later(clk, elapsed)
        html == GenerateHtml(sel.quotes, sel.poem, fa.apod, clk2)
        stop(step, error, at) ==
            [raised |-> TRUE, step |-> step, error |-> error, output |-> out,
             clock |-> at, loaded |-> IF step = "load" THEN None ELSE Some(ld.data),
             selected |-> None, html |-> None]
    IN  IF ld.raised THEN stop("load", ld.error, clk)
        ELSE IF sel.raised THEN stop("select", "ValueError", clk)
        ELSE IF fa.raised THEN stop("fetch", "RequestException", clk2)
        ELSE [raised   |-> io # "written",
              step     |-> IF io = "written" THEN "" ELSE "write",
              error    |-> IF io = "written" THEN "" ELSE "OSError",
              output   |-> WriteOutput(out, html, io),
              clock    |-> clk2,
              loaded   |-> Some(ld.data),
              selected |-> Some([seed_date |-> Today(clk), quotes |-> sel.quotes,
                                 poem |-> sel.poem]),
              html     |-> Some(html)]

----------------------------------------------------------------------------
(* what the model is run on *)

MaxAdds == 2

MaxInitQuotes == 4

MaxInitPoems == 2

Letters == <<"A", "B", "C", "D", "E", "F", "G", "H">>

StoredQuote(i) ==
    [id      |-> <<"q", "0", "0", "0", "0", "0", "0", "0", Letters[i]>>,
     text    |-> <<Letters[i], "\"">>,
     author  |-> <<"b">>,
     history |-> IF i % 2 = 0 THEN <<"h">> ELSE <<>>,
     images  |-> IF i % 3 = 0 THEN <<<<"u">>>> ELSE <<>>]

StoredPoem(i) ==
    [id      |-> <<"p", "0", "0", "0", "0", "0", "0", "0", Letters[i]>>,
     text    |-> <<Letters[i], "\n", Letters[i]>>,
     author  |-> <<"c">>,
     history |-> <<>>,
     images  |-> <<>>]

StoredDoc(nq, np) ==
    [quotes |-> [i \in 1..nq |-> StoredQuote(i)],
     poems  |-> [i \in 1..np |-> StoredPoem(i)]]

\* the submissions of the add form
Forms ==
    {[type |-> Some("quote"), text |-> Some(<<" ", "S", "\n">>),
      author |-> Some(<<"A">>), history |-> None, images |-> None],
     [type |-> Some("quote"), text |-> Some(<<"S", "\\", "c">>),
      author |-> Some(<<"A", " ">>), history |-> Some(<<"h", " ">>),
      images |-> Some(<<" ", "u", ",", ",", " ", "v">>)],
     [type |-> Some("poem"), text |-> Some(<<"P", "\n", "p">>),
      author |-> Some(<<"A">>), history |-> Some(<<" ">>), images |-> Some(<<",">>)],
     [type |-> None, text |-> Some(<<"N">>),
      author |-> Some(<<"A">>), history |-> None, images |-> None],
     [type |-> Some("quote"), text |-> None,
      author |-> Some(<<"A">>), history |-> None, images |-> None],
     [type |-> Some("quote"), text |-> Some(<<" ", "\n">>),
      author |-> Some(<<"A">>), history |-> Some(<<"h">>), images |-> None],
     [type |-> Some("poem"), text |-> Some(<<"P">>),
      author |-> None, history |-> None, images |-> None],
     [type |-> Some("poem"), text |-> Some(<<"P">>),
      author |-> Some(<<"\t">>), history |-> None, images |-> None],
     [type |-> Some("quote"), text |-> Some(<<>>),
      author |-> Some(<<>>), history |-> None, images |-> None]}

\* values of uuid.uuid4().hex; the first two agree on their first eight digits
Uuid4Hex ==
    {[i \in 1..32 |-> IF i = 13 THEN "4" ELSE "a"],
     [i \in 1..32 |-> IF i = 13 THEN "4" ELSE IF i <= 8 THEN "a" ELSE "b"],
     [i \in 1..32 |-> IF i = 13 THEN "4" ELSE "c"]}

\* a page generated on an earlier day
EarlierPage ==
    [complete |-> TRUE, today |-> <<"February", 27, 2024>>, apod_image |-> "",
     apod_description |-> FALSE, quotes |-> <<>>, poem |-> None]

NoOutput == [exists |-> FALSE, content |-> None]

\* the requests the threaded server can serve side by side
Requests == {1, 2}

\* a request whose handler has not started
Idle ==
    [pc |-> "idle", form |-> None, uuid_hex |-> <<>>, loaded |-> None,
     loaded_at |-> 0, saved |-> None]

InitCommon ==
    /\ runs = <<>>
    /\ adds = 0
    /\ last = Answer
    /\ inflight = [r \in Requests |-> Idle]

\* the admin application on a store that is absent, empty or small
InitStore ==
    /\ InitCommon
    /\ file \in {NoFile, SaveData(EmptyStore), SaveData(StoredDoc(1, 1))}
    /\ clock = [day |-> 0, tick |-> 0]
    /\ output = NoOutput

\* the daily selection over stores of every size
InitSelect ==
    /\ InitCommon
    /\ file \in {NoFile}
           \cup {SaveData(StoredDoc(nq, np)) :
                    nq \in 0..MaxInitQuotes, np \in 0..MaxInitPoems}
    /\ clock = [day |-> 0, tick |-> 0]
    /\ output = NoOutput

\* two submissions arriving together at the admin application
InitConcurrent ==
    /\ InitCommon
    /\ file \in {NoFile, SaveData(StoredDoc(1, 1))}
    /\ clock = [day |-> 0, tick |-> 0]
    /\ output = NoOutput

\* the admin application late in the day, with room for one more submission
InitAdmin ==
    /\ runs = <<>>
    /\ adds = MaxAdds - 1
    /\ last = Answer
    /\ inflight = [r \in Requests |-> Idle]
    /\ file \in {NoFile, SaveData(StoredDoc(1, 1))}
    /\ clock = [day |-> MaxDay, tick |-> MomentsPerDay - 1]
    /\ output = NoOutput

\* the page generator
InitGen ==
    /\ InitCommon
    /\ file \in {NoFile, SaveData(StoredDoc(3, 1))}
    /\ clock = [day |-> 0, tick |-> 0]
    /\ output \in {NoOutput, [exists |-> TRUE, content |-> Some(EarlierPage)]}

----------------------------------------------------------------------------
(* the operations *)

PushRun(rs, r) == IF Len(rs) < 2 THEN Append(rs, r) ELSE <<rs[2], r>>

RunOf(via, clk, data, sel) ==
    [via |-> via, date |-> DateOf(clk.day), tick |-> clk.tick, data |-> data,
     raised |-> sel.raised, quotes |-> sel.quotes, poem |-> sel.poem,
     positions |-> sel.positions]

\* the passing of time
Tick ==
    /\ Later(clock, 1).day <= MaxDay
    /\ clock' = Later(clock, 1)
    /\ UNCHANGED <<inflight, file, output, runs, adds, last>>

\* GET /
Index ==
    \E data \in {AppLoadData(file)} :
       \E sel \in {IndexSelection(data, Today(clock))} :
          /\ runs' = PushRun(runs, RunOf("index", clock, data, sel))
          /\ last' = [Answer EXCEPT
                        !.op = "index",
                        !.outcome = IF sel.raised THEN "error" ELSE "ok",
                        !.error = IF sel.raised THEN "ValueError" ELSE "",
                        !.loaded = Some(data),
                        !.view = IF sel.raised THEN None
                                 ELSE Some([quotes |-> sel.quotes, poem |-> sel.poem,
                                            today |-> LongDate(Today(clock))])]
          /\ UNCHANGED <<inflight, file, clock, output, adds>>

\* GET /add
AddPage ==
    \E data \in {AppLoadData(file)} :
       /\ last' = [Answer EXCEPT
                     !.op = "add_page",
                     !.loaded = Some(data),
                     !.view = Some([quotes |-> GetList(data, "quotes"),
                                    poems |-> GetList(data, "poems")])]
       /\ UNCHANGED <<inflight, file, clock, output, runs, adds>>

\* POST /add-entry
AddEntry ==
    /\ adds < MaxAdds
    /\ \E loaded \in {AppLoadData(file)} :
          \E form \in Forms, uuid_hex \in Uuid4Hex :
             \E r \in {AddEntryResult(file, loaded, form, uuid_hex)} :
                /\ file' = r.file
                /\ last' = r.answer
                /\ adds' = IF r.answer.outcome = "ok" THEN adds + 1 ELSE adds
    /\ UNCHANGED <<inflight, clock, output, runs>>

\* POST /add-entry served on a thread of its own, up to data = load_data():
\* the fields are read and checked, the entry gets its id, the store is read
AddEntryBegin(r) ==
    /\ inflight[r].pc = "idle"
    /\ \E loaded \in {AppLoadData(file)} :
          \E form \in Forms, uuid_hex \in Uuid4Hex :
             \E res \in {AddEntryResult(file, loaded, form, uuid_hex)} :
                IF res.answer.outcome = "rejected"
                THEN /\ last' = res.answer
                     /\ inflight' = [inflight EXCEPT
                                       ![r] = [Idle EXCEPT !.pc = "done",
                                                           !.form = Some(form)]]
                ELSE /\ last' = last
                     /\ inflight' = [inflight EXCEPT
                                       ![r] = [Idle EXCEPT
                                                 !.pc = "loaded",
                                                 !.form = Some(form),
                                                 !.uuid_hex = uuid_hex,
                                                 !.loaded = Some(loaded),
                                                 !.loaded_at = adds]]
    /\ UNCHANGED <<file, clock, output, runs, adds>>

AddEntryFinishReloading(r) ==
    /\ inflight[r].pc = "loaded"
    /\ \E res \in {AddEntryResult(file, AppLoadData(file), inflight[r].form[1],
                                  inflight[r].uuid_hex)} :
          /\ file' = res.file
          /\ last' = res.answer
          /\ adds' = IF res.answer.outcome = "ok" THEN adds + 1 ELSE adds
          /\ inflight' = [inflight EXCEPT ![r].pc = "done",
                                          ![r].saved = res.answer.saved]
    /\ UNCHANGED <<clock, output, runs>>

\* the rest of that handler: the entry is appended to the store the handler
\* read in its first step, and the whole document is written
AddEntryFinish(r) ==
    /\ inflight[r].pc = "loaded"
    /\ \E res \in {AddEntryResult(file, inflight[r].loaded[1], inflight[r].form[1],
                                  inflight[r].uuid_hex)} :
          /\ file' = res.file
          /\ last' = res.answer
          /\ adds' = IF res.answer.outcome = "ok" THEN adds + 1 ELSE adds
          /\ inflight' = [inflight EXCEPT ![r].pc = "done",
                                          ![r].saved = res.answer.saved]
    /\ UNCHANGED <<clock, output, runs>>

\* GET /preview
Preview ==
    /\ last' = [Answer EXCEPT !.op = "preview"]
    /\ UNCHANGED <<inflight, file, clock, output, runs, adds>>

\* select_daily_content(load_data()), the first step of main()
SelectDaily ==
    \E ld \in {GenLoadData(file)} :
       \E sel \in {SelectDailyContent(ld.data, clock)} :
          /\ runs' = IF ld.raised THEN runs
                     ELSE PushRun(runs,
                                  RunOf("select_daily_content", clock, ld.data, sel))
          /\ last' = [Answer EXCEPT
                        !.op = "select_daily_content",
                        !.outcome = IF ld.raised \/ sel.raised THEN "error" ELSE "ok",
                        !.error = IF ld.raised THEN ld.error
                                  ELSE IF sel.raised THEN "ValueError" ELSE "",
                        !.step = IF ld.raised THEN "load"
                                 ELSE IF sel.raised THEN "select" ELSE "",
                        !.loaded = IF ld.raised THEN None ELSE Some(ld.data),
                        !.view = IF ld.raised \/ sel.raised THEN None
                                 ELSE Some([seed_date |-> Today(clock),
                                            quotes |-> sel.quotes,
                                            poem |-> sel.poem])]
          /\ UNCHANGED <<inflight, file, clock, output, adds>>

\* python3 generate_page.py, run by hand or by the publishing job
RunGenerator ==
    \E ld \in {GenLoadData(file)} :
       \E net \in ApodOutcomes, elapsed \in 0..1, io \in WriteOutcomes :
          \E m \in {MainRun(ld, output, clock, net, elapsed, io)} :
             /\ m.clock.day <= MaxDay
             /\ output' = m.output
             /\ clock' = m.clock
             /\ last' = [Answer EXCEPT
                           !.op = "main",
                           !.outcome = IF m.raised THEN "error" ELSE "ok",
                           !.error = m.error,
                           !.step = m.step,
                           !.loaded = m.loaded,
                           !.view = m.selected,
                           !.net = net]
             /\ UNCHANGED <<inflight, file, runs, adds>>

\* subprocess.run(...) could not start the generator: the exception is not
\* a CalledProcessError and leaves the handler
RegenerateNotStarted ==
    /\ last' = [Answer EXCEPT
                  !.op = "regenerate", !.outcome = "error",
                  !.error = "FileNotFoundError", !.step = "launch"]
    /\ UNCHANGED <<inflight, file, clock, output, runs, adds>>

\* subprocess.run(...) ran the generator to its end
RegenerateStarted ==
    \E ld \in {GenLoadData(file)} :
       \E net \in ApodOutcomes, elapsed \in 0..1, io \in WriteOutcomes :
          \E m \in {MainRun(ld, output, clock, net, elapsed, io)} :
             /\ m.clock.day <= MaxDay
             /\ output' = m.output
             /\ clock' = m.clock
             /\ last' = [Answer EXCEPT
                           !.op = "regenerate",
                           !.outcome = IF m.raised THEN "failed" ELSE "ok",
                           !.error = IF m.raised THEN "CalledProcessError" ELSE "",
                           !.step = m.step,
                           !.flash =
                               IF m.raised
                               THEN <<Flash(<<"Error regenerating page: ",
                                              "CalledProcessError">>, "error")>>
                               ELSE <<Flash(<<"Static page regenerated successfully!">>,
                                            "success")>>,
                           !.redirect = "index",
                           !.loaded = m.loaded,
                           !.view = m.selected,
                           !.net = net]
             /\ UNCHANGED <<inflight, file, runs, adds>>

\* GET /regenerate
Regenerate == RegenerateNotStarted \/ RegenerateStarted

----------------------------------------------------------------------------
(* the specifications *)

NextStore == AddPage \/ AddEntry \/ Preview

SpecStore == InitStore /\ [][NextStore]_vars

NextSelect == Index \/ SelectDaily \/ Tick

SpecSelect == InitSelect /\ [][NextSelect]_vars

NextGen == RunGenerator \/ Regenerate \/ Tick

SpecGen == InitGen /\ [][NextGen]_vars

NextAdmin == Index \/ AddPage \/ AddEntry \/ Preview \/ Regenerate

SpecAdmin == InitAdmin /\ [][NextAdmin]_vars

NextConcurrent == \E r \in Requests : AddEntryBegin(r) \/ AddEntryFinish(r)

SpecConcurrent == InitConcurrent /\ [][NextConcurrent]_vars

----------------------------------------------------------------------------
(* the daily selection *)

SameDayRuns ==
    /\ Len(runs) = 2
    /\ runs[1].data = runs[2].data
    /\ runs[1].date = runs[2].date

\* C1: two selections over the same store contents on the same calendar
\* date, by select_daily_content or by the index route, give the same
\* quotes in the same order and the same poem, whatever the time of day
C1_SelectionDeterministic ==
    SameDayRuns =>
        /\ runs[1].quotes = runs[2].quotes
        /\ runs[1].poem = runs[2].poem

C1_Witness ==
    /\ SameDayRuns
    /\ runs[1].tick # runs[2].tick
    /\ Len(runs[1].data.quotes) > 3
    /\ Len(runs[1].data.poems) > 1
    /\ Len(runs[2].quotes) = 3
    /\ runs[2].poem # None

Distinct(seq) == \A i, j \in 1..Len(seq) : i # j => seq[i] # seq[j]

\* C2: a selection over n quotes does not raise, yields exactly min(3, n)
\* quotes, each the quote at a position of the stored list, and takes no
\* position twice; over no quotes it yields the empty sequence
C2_QuotesSampledWithoutReplacement ==
    \A k \in 1..Len(runs) :
       LET r == runs[k]
           stored == GetList(r.data, "quotes")
           n == Len(stored)
       IN  /\ ~r.raised
           /\ Len(r.quotes) = (IF n < 3 THEN n ELSE 3)
           /\ Len(r.positions) = Len(r.quotes)
           /\ \A i \in 1..Len(r.quotes) :
                 /\ r.positions[i] \in 1..n
                 /\ r.quotes[i] = stored[r.positions[i]]
           /\ Distinct(r.positions)
           /\ (n = 0 => r.quotes = <<>>)

C2_Witness ==
    \E k \in 1..Len(runs) :
       /\ Len(GetList(runs[k].data, "quotes")) > 3
       /\ Len(runs[k].quotes) = 3
       /\ runs[k].positions # <<1, 2, 3>>

\* C3: a selection over a store with a poem yields one of the stored poems;
\* over a store without poems it yields no poem and does not raise, so the
\* store with two empty lists gives no quotes and no poem
C3_PoemIsStoredOrAbsent ==
    \A k \in 1..Len(runs) :
       LET r == runs[k]
           poems == GetList(r.data, "poems")
       IN  /\ ~r.raised
           /\ (poems # <<>> =>
                 /\ r.poem # None
                 /\ \E i \in 1..Len(poems) : r.poem = Some(poems[i]))
           /\ (poems = <<>> => r.poem = None)
           /\ (r.data = EmptyStore => r.quotes = <<>> /\ r.poem = None)

C3_Witness ==
    \E k \in 1..Len(runs) :
       /\ Len(GetList(runs[k].data, "quotes")) > 0
       /\ Len(GetList(runs[k].data, "poems")) = 2
       /\ runs[k].poem = Some(runs[k].data.poems[2])

----------------------------------------------------------------------------
(* the entry store and the add form *)

LoadingOps == {"index", "add_page", "add_entry", "main"}

\* C4: an operation that loads the store while the data file is missing
\* (index, the add page, add_entry, the generator's main) takes the store
\* to be empty and goes on without an error
C4_MissingFileIsEmptyStore ==
    [][(/\ ~file.exists
        /\ last'.op \in LoadingOps
        /\ last'.outcome # "rejected")
       => /\ last'.outcome = "ok"
          /\ last'.loaded = Some(EmptyStore)]_vars

\* a form field that is missing, empty or only whitespace
Blank(field) ==
    \/ field = None
    \/ \A i \in 1..Len(field[1]) : IsSpace(field[1][i])

ErrorReported(answer) ==
    \E i \in 1..Len(answer.flash) : answer.flash[i].category = "error"

\* C5: add_entry with a blank text or author reports an error, redirects
\* to the add form and leaves the data file as it was
C5_BlankSubmissionRejected ==
    [][(/\ last'.op = "add_entry"
        /\ Blank(last'.form[1].text) \/ Blank(last'.form[1].author))
       => /\ last'.outcome = "rejected"
          /\ ErrorReported(last')
          /\ last'.redirect = "add_page"
          /\ last'.saved = None
          /\ file' = file
          /\ adds' = adds]_vars

C5_Witness ==
    /\ last.op = "add_entry"
    /\ last.outcome = "rejected"
    /\ last.form[1].text = Some(<<" ", "\n">>)
    /\ file.exists
    /\ adds > 0

\* the store the data file holds, the empty store when there is no file
Persisted(f) == IF f.exists THEN JsonLoad(f.text) ELSE EmptyStore

\* C6: add_entry with text and author of type quote (poem) makes the quotes
\* (poems) list one longer, the new last element having an id that starts
\* with q (p) and empty history and images where the form gave none; the
\* other list stays as it was
C6_ValidSubmissionAppended ==
    [][(/\ last'.op = "add_entry"
        /\ ~Blank(last'.form[1].text)
        /\ ~Blank(last'.form[1].author)
        /\ last'.form[1].type \in {Some("quote"), Some("poem")})
       => LET form   == last'.form[1]
              mine   == IF form.type = Some("quote") THEN "quotes" ELSE "poems"
              other  == IF form.type = Some("quote") THEN "poems" ELSE "quotes"
              before == Persisted(file)
              after  == Persisted(file')
              new    == after[mine][Len(after[mine])]
          IN  /\ last'.outcome = "ok"
              /\ Len(after[mine]) = Len(before[mine]) + 1
              /\ SubSeq(after[mine], 1, Len(before[mine])) = before[mine]
              /\ after[other] = before[other]
              /\ new.id[1] = (IF form.type = Some("quote") THEN "q" ELSE "p")
              /\ Len(new.id) = 1 + HexLen
              /\ (form.history = None => new.history = <<>>)
              /\ (form.images = None => new.images = <<>>)]_vars

C6_Witness ==
    /\ last.op = "add_entry"
    /\ last.outcome = "ok"
    /\ last.form[1].type = Some("poem")
    /\ Len(last.loaded[1].poems) > 0
    /\ Len(Persisted(file).poems) = Len(last.loaded[1].poems) + 1
    /\ Persisted(file).poems[Len(Persisted(file).poems)].id[1] = "p"

BothLists(data) == DOMAIN data = {"quotes", "poems"}

\* C7: the store, as the file holds it, as load_data returns it and as
\* save_data is given it, always has both lists, and no handler fails for
\* want of one
C7_BothListsPresent ==
    /\ BothLists(Persisted(file))
    /\ (last.loaded # None => BothLists(last.loaded[1]))
    /\ (last.saved # None => BothLists(last.saved[1]))
    /\ last.error # "KeyError"

C7_Witness ==
    /\ adds >= 2
    /\ last.op = "add_entry"
    /\ last.outcome = "ok"
    /\ last.loaded # None
    /\ Persisted(file).quotes # <<>>
    /\ Persisted(file).poems # <<>>

\* C10: the document save_data writes reads back, by load_data, as the
\* store it was given, and writing back what load_data returns leaves a
\* document with the same entries, fields and order in both lists
C10_RoundTrip ==
    /\ (last.saved # None => AppLoadData(file) = last.saved[1])
    /\ (file.exists =>
          AppLoadData(SaveData(AppLoadData(file))) = AppLoadData(file))

C10_Witness ==
    /\ last.saved # None
    /\ file.exists
    /\ \E i \in 1..Len(last.saved[1].poems) :
          last.saved[1].poems[i].text = <<"P", "\n", "p">>
    /\ \E i \in 1..Len(last.saved[1].quotes) :
          last.saved[1].quotes[i].text = <<"S", "\\", "c">>

----------------------------------------------------------------------------
(* regeneration of the static page *)

\* the operator is told of the failure: by the flashed error, or by the
\* exception that leaves the handler or the generator
FailureReported(answer) == ErrorReported(answer) \/ answer.outcome = "error"

\* C8: a regeneration that fails at any step is reported, and the page
\* generated before it is still in the output file, as it was
C8_FailedRegenerationLeavesOutput ==
    [][(/\ last'.op \in {"regenerate", "main"}
        /\ last'.outcome # "ok"
        /\ output.exists
        /\ output.content # None
        /\ output.content[1].complete)
       => /\ FailureReported(last')
          /\ output' = output]_vars

EnrichmentFailures == {"connection_error", "timeout", "http_error", "invalid_json"}

\* C9: when the enrichment request fails, the generator does not stop at
\* the fetch, and the page it writes carries the selected quotes and poem
\* and neither enrichment section
C9_EnrichmentFailureNotFatal ==
    (last.op \in {"main", "regenerate"} /\ last.net \in EnrichmentFailures)
    => /\ last.step \in {"", "load", "write"}
       /\ (last.step = "" =>
             /\ last.outcome = "ok"
             /\ output.exists
             /\ output.content # None
             /\ output.content[1].complete
             /\ output.content[1].apod_image = ""
             /\ ~output.content[1].apod_description
             /\ Len(output.content[1].quotes) = Len(last.view[1].quotes)
             /\ \A i \in 1..Len(last.view[1].quotes) :
                   output.content[1].quotes[i].text = last.view[1].quotes[i].text
             /\ (last.view[1].poem = None) = (output.content[1].poem = None)
             /\ (last.view[1].poem # None =>
                   output.content[1].poem[1].author = last.view[1].poem[1].author))

C9_Witness ==
    /\ last.op = "main"
    /\ last.net = "timeout"
    /\ last.outcome = "ok"
    /\ output.content # None
    /\ Len(output.content[1].quotes) = 3
    /\ output.content[1].poem # None
    /\ output.content[1].apod_image = ""

----------------------------------------------------------------------------

IdsOf(entries) == [i \in 1..Len(entries) |-> entries[i].id]

\* C11: in the persisted store no two entries of the quotes list share an
\* id and no two entries of the poems list share an id
C11_IdsUniqueWithinList ==
    /\ Distinct(IdsOf(Persisted(file).quotes))
    /\ Distinct(IdsOf(Persisted(file).poems))

----------------------------------------------------------------------------
(* submissions served side by side *)

Total(data) == Len(data.quotes) + Len(data.poems)

BothStored == \A r \in Requests : inflight[r].pc = "done" /\ inflight[r].saved # None

\* C12: of two valid submissions that both read the store before either
\* writes it, the file ends as the document of one of them, with one new
\* entry only; of two served one after the other, the second reads what the
\* first wrote and the file ends with both new entries
C12_InterleavedAddsLoseOne ==
    BothStored =>
        LET a   == inflight[1]
            b   == inflight[2]
            now == Persisted(file)
        IN  IF a.loaded_at = b.loaded_at
            THEN /\ a.loaded = b.loaded
                 /\ now \in {a.saved[1], b.saved[1]}
                 /\ now = last.saved[1]
                 /\ Total(now) = Total(a.loaded[1]) + 1
            ELSE \E first, second \in Requests :
                    /\ inflight[first].loaded_at < inflight[second].loaded_at
                    /\ inflight[second].loaded[1] = inflight[first].saved[1]
                    /\ now = inflight[second].saved[1]
                    /\ Total(now) = Total(inflight[first].loaded[1]) + 2

C12_Witness ==
    /\ BothStored
    /\ inflight[1].loaded_at = inflight[2].loaded_at
    /\ inflight[1].form[1].type = Some("quote")
    /\ inflight[2].form[1].type = Some("poem")
    /\ Total(inflight[1].loaded[1]) > 0
    /\ Total(Persisted(file)) = Total(inflight[1].loaded[1]) + 1
    /\ Persisted(file).poems = inflight[1].loaded[1].poems

----------------------------------------------------------------------------
(* what the operations leave of the store *)

Stored == last'.op = "add_entry" /\ last'.outcome = "ok"

\* C13: an accepted submission leaves its list as it was with the new
\* entry after the last one, and the other list as it was; every other
\* operation, a refused submission included, leaves the data file as it was
C13_StoreAppendOnly ==
    [][IF Stored
       THEN LET before == Persisted(file)
                after  == Persisted(file')
                form   == last'.form[1]
                key    == ListKey(form.type)
                n      == Len(before[key])
            IN  /\ Len(after[key]) = n + 1
                /\ SubSeq(after[key], 1, n) = before[key]
                /\ after[key][n + 1].text = Strip(FormGet(form, "text"))
                /\ after[key][n + 1].author = Strip(FormGet(form, "author"))
                /\ \A other \in DOMAIN before \ {key} : after[other] = before[other]
                /\ DOMAIN after = DOMAIN before
       ELSE file' = file]_vars

C13_Witness ==
    /\ last.op = "add_entry"
    /\ last.outcome = "ok"
    /\ last.form[1].type = Some("quote")
    /\ last.loaded[1].quotes # <<>>
    /\ last.loaded[1].poems # <<>>
    /\ Persisted(file).quotes = Append(last.loaded[1].quotes,
                                       Persisted(file).quotes[Len(Persisted(file).quotes)])
    /\ Persisted(file).poems = last.loaded[1].poems
    /\ runs # <<>>
    /\ output.exists

----------------------------------------------------------------------------
(* the date on the generated page *)

\* C14: the page a run of the generator has just written carries the
\* calendar date whose seed chose that page's quotes and poem
C14_PageDateIsSeedDate ==
    (/\ last.op \in {"main", "regenerate"}
     /\ last.outcome = "ok"
     /\ last.view # None)
    => /\ output.content # None
       /\ output.content[1].today = LongDate(last.view[1].seed_date)

----------------------------------------------------------------------------
(* the two implementations of the selection *)

Moments == {[day |-> d, tick |-> t] : d \in 0..MaxDay, t \in 0..(MomentsPerDay - 1)}

SameContent(run, sel) ==
    /\ run.raised = sel.raised
    /\ run.quotes = sel.quotes
    /\ run.poem = sel.poem

\* C15: on a store with both lists, what the index route selected is what
\* select_daily_content returns for that store at any moment of the same
\* date, and what select_daily_content selected is what the index route
\* computes for that store and date: the same quotes in the same order and
\* the same poem
C15_IndexMatchesGenerator ==
    \A i \in 1..Len(runs) :
       BothLists(runs[i].data) =>
          /\ runs[i].via = "index" =>
                \A clk \in Moments :
                   Today(clk) = runs[i].date =>
                      SameContent(runs[i], SelectDailyContent(runs[i].data, clk))
          /\ runs[i].via = "select_daily_content" =>
                SameContent(runs[i], IndexSelection(runs[i].data, runs[i].date))

C15_Witness ==
    /\ Len(runs) = 2
    /\ runs[1].via = "index"
    /\ runs[2].via = "select_daily_content"
    /\ runs[1].data = runs[2].data
    /\ runs[1].date = runs[2].date
    /\ runs[1].date # StartDate
    /\ Len(runs[1].data.quotes) > 3
    /\ Len(runs[1].data.poems) > 1
    /\ Len(runs[1].quotes) = 3
    /\ runs[1].quotes = runs[2].quotes
    /\ runs[1].poem # None
    /\ runs[1].poem = runs[2].poem

====
